---- MODULE Spec2Model ----
(***************************************************************************)
(* Model of the prompt consolidation pipeline of ComfyUI-Violet-Tools      *)
(* (src/node_resources/prompt_consolidator.py).                            *)
(*                                                                         *)
(* Prompts, phrases and vocabulary entries are TLA+ strings; every text    *)
(* operation of the source (split, strip, lower, replace, regex match,     *)
(* join, the fuzzy scorer) is computed character by character.             *)
(***************************************************************************)
EXTENDS Integers, Sequences, FiniteSets, TLC

(***************************************************************************)
(* Character-level helpers (Python str methods).                           *)
(***************************************************************************)

\* the characters of a string, as a tuple of one-character strings
Chars(s) == [i \in 1..Len(s) |-> SubSeq(s, i, i)]

CharAt(s, i) == SubSeq(s, i, i)

Max(a, b) == IF a >= b THEN a ELSE b

Min(a, b) == IF a <= b THEN a ELSE b

SetMin(S) == CHOOSE x \in S : \A y \in S : x <= y

SetMax(S) == CHOOSE x \in S : \A y \in S : x >= y

\* str.strip() / regex \s: the whitespace characters of the modelled alphabet
Whitespace == {" ", "\t"}

\* regex \w over the modelled alphabet
WordChars == {CharAt("abcdefghijklmnopqrstuvwxyzABCDEFGHIJKLMNOPQRSTUVWXYZ0123456789_", i) : i \in 1..63}

\* the characters of the modelled alphabet in code-point order
Alphabet == "\t ,0123456789ABCDEFGHIJKLMNOPQRSTUVWXYZ_abcdefghijklmnopqrstuvwxyz"

AlphabetSet == {CharAt(Alphabet, i) : i \in 1..Len(Alphabet)}

\* ord(c), up to order
CodePoint == [c \in AlphabetSet |-> CHOOSE i \in 1..Len(Alphabet) : CharAt(Alphabet, i) = c]

UpperLetters == "ABCDEFGHIJKLMNOPQRSTUVWXYZ"

LowerLetters == "abcdefghijklmnopqrstuvwxyz"

\* str.lower() on each character
LowerOf ==
    [c \in AlphabetSet |->
        IF \E i \in 1..26 : CharAt(UpperLetters, i) = c
        THEN CharAt(LowerLetters, CHOOSE i \in 1..26 : CharAt(UpperLetters, i) = c)
        ELSE c]

RECURSIVE LowerFrom(_, _)
LowerFrom(s, i) ==
    IF i > Len(s) THEN "" ELSE LowerOf[CharAt(s, i)] \o LowerFrom(s, i + 1)

\* str.lower()
Lower(s) == LowerFrom(s, 1)

RECURSIVE ReplaceUnderscoreFrom(_, _)
ReplaceUnderscoreFrom(s, i) ==
    IF i > Len(s) THEN ""
    ELSE (IF CharAt(s, i) = "_" THEN " " ELSE CharAt(s, i)) \o ReplaceUnderscoreFrom(s, i + 1)

\* str.replace("_", " ")
ReplaceUnderscore(s) == ReplaceUnderscoreFrom(s, 1)

\* str.strip()
Strip(s) ==
    LET solid == {i \in 1..Len(s) : CharAt(s, i) \notin Whitespace}
    IN  IF solid = {} THEN "" ELSE SubSeq(s, SetMin(solid), SetMax(solid))

RECURSIVE SplitFrom(_, _, _)
\* the pieces of s[from..] between the characters of the set seps
SplitFrom(s, seps, from) ==
    LET idx == {i \in from..Len(s) : CharAt(s, i) \in seps}
    IN  IF idx = {} THEN <<SubSeq(s, from, Len(s))>>
        ELSE <<SubSeq(s, from, SetMin(idx) - 1)>> \o SplitFrom(s, seps, SetMin(idx) + 1)

\* str.split(",")
SplitComma(s) == SplitFrom(s, {","}, 1)

\* str.split(): split on runs of whitespace, no empty pieces
SplitWords(s) == SelectSeq(SplitFrom(s, Whitespace, 1), LAMBDA w : w # "")

RECURSIVE Join(_, _)
\* sep.join(parts)
Join(parts, sep) ==
    IF parts = <<>> THEN ""
    ELSE IF Len(parts) = 1 THEN parts[1]
    ELSE parts[1] \o sep \o Join(Tail(parts), sep)

\* x in list
InSeq(x, seq) == \E i \in DOMAIN seq : seq[i] = x

\* [x.strip() for x in parts]
StripAll(parts) == [i \in DOMAIN parts |-> Strip(parts[i])]

(***************************************************************************)
(* The fuzzy scorer (rapidfuzz).  fuzz.QRatio(s1, s2) is 0 when either     *)
(* string is empty and otherwise the Indel ratio                           *)
(* 100 * 2 * LCS(s1, s2) / (len(s1) + len(s2)).  The score is kept as the  *)
(* fraction num/den so that comparisons are exact.                         *)
(***************************************************************************)

\* one row of the longest-common-subsequence table from the row before it:
\* cur[j] is the greater of prev[j] and 1 + prev[k - 1] over the k <= j with
\* b[k] = ai
LcsRow(ai, b, prev) ==
    SubSeq([j \in 1..Len(b) |->
               SetMax({prev[j]} \cup {(IF k = 1 THEN 0 ELSE prev[k - 1]) + 1 :
                                        k \in {k \in 1..j : b[k] = ai}})],
           1, Len(b))

RECURSIVE LcsRows(_, _, _, _)
LcsRows(a, b, i, prev) ==
    IF i > Len(a) THEN prev
    ELSE LcsRows(a, b, i + 1, LcsRow(a[i], b, prev))

\* length of the longest common subsequence of two strings
Lcs(s1, s2) ==
    IF Len(s1) = 0 \/ Len(s2) = 0 THEN 0
    ELSE LET a == Chars(s1)
             b == Chars(s2)
         IN  LcsRows(a, b, 1, [j \in 1..Len(b) |-> 0])[Len(b)]

\* fuzz.QRatio(s1, s2) as the fraction num/den of 100
QRatio(s1, s2) ==
    IF Len(s1) = 0 \/ Len(s2) = 0 THEN [num |-> 0, den |-> 1]
    ELSE [num |-> 200 * Lcs(s1, s2), den |-> Len(s1) + Len(s2)]

\* score >= threshold
ScoreAtLeast(score, threshold) == score.num >= threshold * score.den

\* score a > score b
ScoreGreater(a, b) == a.num * b.den > b.num * a.den

NoMatch == [found |-> FALSE]

\* process.extractOne(query, choices, scorer=fuzz.QRatio): None for an empty
\* list, otherwise the first choice with the highest score
ExtractOne(query, choices) ==
    IF choices = <<>> THEN NoMatch
    ELSE LET scores == [i \in DOMAIN choices |-> QRatio(query, choices[i])]
             best == CHOOSE i \in DOMAIN choices :
                        /\ \A j \in DOMAIN choices : ~ScoreGreater(scores[j], scores[i])
                        /\ \A j \in 1..(i - 1) : ScoreGreater(scores[i], scores[j])
         IN  [found |-> TRUE, candidate |-> choices[best], score |-> scores[best]]

(***************************************************************************)
(* Tokenizer and canonicalizer.                                            *)
(***************************************************************************)

\* a tokenizer that strips the pieces and keeps the empty ones
SplitKeepsEmpty(text) == StripAll(SplitComma(text))

\* _split_and_clean(text)
SplitAndClean(text) ==
    SelectSeq(StripAll(SplitComma(text)), LAMBDA t : t # "")

\* _split_and_clean called with an argument of the given type: text.split
\* is looked up on the argument, and of these types only str has it
SplitAndCleanOf(type, text) ==
    IF type = "str" THEN [raised |-> "none", parts |-> SplitAndClean(text)]
    ELSE [raised |-> "AttributeError", parts |-> <<>>]

\* token.lower().replace("_", " ")
NormKey(token) == ReplaceUnderscore(Lower(token))

\* the aliases of one alias_map key: [a.strip() for a in aliases_csv.split(",")]
AliasesOf(aliases_csv) == StripAll(SplitComma(aliases_csv))

FuzzyThreshold == 90

\* a canonicalizer that looks the alias map up before the allowlist
AliasBeforeAllowlist(token, allowlist, alias_map) ==
    LET key == NormKey(token)
        hits == {i \in DOMAIN alias_map : InSeq(key, AliasesOf(alias_map[i].aliases))}
        match == ExtractOne(key, allowlist)
    IN  IF hits # {} THEN alias_map[SetMin(hits)].canon
        ELSE IF InSeq(key, allowlist) THEN key
        ELSE IF match.found /\ ScoreAtLeast(match.score, FuzzyThreshold) THEN match.candidate
        ELSE key

\* _alias_or_canonical(token, cfg); alias_map is the sequence of the map's
\* (key, value) items in file order
AliasOrCanonical(token, allowlist, alias_map) ==
    LET key == NormKey(token)
        hits == {i \in DOMAIN alias_map : InSeq(key, AliasesOf(alias_map[i].aliases))}
        match == ExtractOne(key, allowlist)
    IN  IF InSeq(key, allowlist) THEN key
        ELSE IF hits # {} THEN alias_map[SetMin(hits)].canon
        ELSE IF match.found /\ ScoreAtLeast(match.score, FuzzyThreshold) THEN match.candidate
        ELSE key

(***************************************************************************)
(* Structural normalizer: person-count collapse, filler drop, synonym      *)
(* rewrite and descriptor-noun merge.                                      *)
(***************************************************************************)

\* pc_pool
PcPool == {"solo", "duo", "group", "1girl", "1boy", "2girls", "2boys", "3girls", "3boys",
           "4girls", "4boys", "multiple girls", "multiple boys"}

\* a max that returns the last element of greatest length
MaxByLenLast(seq) ==
    seq[CHOOSE i \in DOMAIN seq :
            /\ \A j \in DOMAIN seq : Len(seq[j]) <= Len(seq[i])
            /\ \A j \in (i + 1)..Len(seq) : Len(seq[j]) < Len(seq[i])]

\* max(seq, key=len): the first element of greatest length
MaxByLen(seq) ==
    seq[CHOOSE i \in DOMAIN seq :
            /\ \A j \in DOMAIN seq : Len(seq[j]) <= Len(seq[i])
            /\ \A j \in 1..(i - 1) : Len(seq[j]) < Len(seq[i])]

\* the person-count pass: with more than one person-count tag, all of them
\* are removed and the longest is appended at the end
CollapsePersonCount(mapped) ==
    LET pc_seen == SelectSeq(mapped, LAMBDA t : t \in PcPool)
    IN  IF Len(pc_seen) > 1
        THEN SelectSeq(mapped, LAMBDA t : t \notin PcPool) \o <<MaxByLen(pc_seen)>>
        ELSE mapped

\* mapped = [t for t in mapped if t != "hair"]
DropFiller(mapped) == SelectSeq(mapped, LAMBDA t : t # "hair")

GlossLipstick == "gloss lipstick"

\* whether the regex \bgloss lipstick\b matches x at position i
GlossLipstickAt(x, i) ==
    LET n == Len(GlossLipstick)
    IN  /\ i + n - 1 <= Len(x)
        /\ SubSeq(x, i, i + n - 1) = GlossLipstick
        /\ (i = 1 \/ CharAt(x, i - 1) \notin WordChars)
        /\ (i + n - 1 = Len(x) \/ CharAt(x, i + n) \notin WordChars)

RECURSIVE RewriteGlossFrom(_, _)
RewriteGlossFrom(x, i) ==
    IF i > Len(x) THEN ""
    ELSE IF GlossLipstickAt(x, i) THEN "lip gloss" \o RewriteGlossFrom(x, i + Len(GlossLipstick))
    ELSE CharAt(x, i) \o RewriteGlossFrom(x, i + 1)

\* re.sub(r"\bgloss lipstick\b", "lip gloss", x)
RewriteGloss(x) == RewriteGlossFrom(x, 1)

\* nouns, in the order of the regex alternation
Nouns == <<"pubic hair", "armpit hair", "lip gloss",
           "breasts", "ass", "skin", "areolas", "penis",
           "eyeliner", "blush", "eyeshadow", "brows", "fingernails", "lipstick">>

\* whether t = <d characters> <whitespace, at least one> <noun>
NounSplitAt(t, d, noun) ==
    LET start == Len(t) - Len(noun) + 1
    IN  /\ d >= 1
        /\ start > d + 1
        /\ SubSeq(t, start, Len(t)) = noun
        /\ \A i \in (d + 1)..(start - 1) : CharAt(t, i) \in Whitespace

\* re.match(noun_pattern, t) for ^(?P<desc>.+?)\s+(?P<noun>...)$ : the lazy
\* desc group takes the shortest prefix after which whitespace and a noun
\* reach the end of t
NounMatch(t) ==
    LET ds == {d \in 1..Len(t) : \E k \in DOMAIN Nouns : NounSplitAt(t, d, Nouns[k])}
    IN  IF ds = {} THEN NoMatch
        ELSE LET d == SetMin(ds)
                 k == SetMin({k \in DOMAIN Nouns : NounSplitAt(t, d, Nouns[k])})
             IN  [found |-> TRUE, desc |-> Strip(SubSeq(t, 1, d)), noun |-> Nouns[k]]

\* a merge that never sees a lip gloss phrase
NeverLipGloss(tokens) == FALSE

\* lip_gloss_present
LipGlossPresent(tokens) ==
    \E i \in DOMAIN tokens :
        \/ tokens[i] = "lip gloss"
        \/ /\ Len(tokens[i]) >= Len(" lip gloss")
           /\ SubSeq(tokens[i], Len(tokens[i]) - Len(" lip gloss") + 1, Len(tokens[i])) = " lip gloss"

\* the group a matching phrase falls in: lipstick counts as lip gloss when a
\* lip gloss phrase is present
GroupNoun(m, tokens) ==
    IF m.noun = "lipstick" /\ LipGlossPresent(tokens) THEN "lip gloss" ELSE m.noun

\* whether tokens[i] belongs to the group of noun
InGroup(tokens, i, noun) ==
    LET m == NounMatch(tokens[i])
    IN  m.found /\ GroupNoun(m, tokens) = noun

\* descs extended by all the parts, repeated or not
AppendAll(descs, parts) == descs \o parts

RECURSIVE AppendUnique(_, _)
\* descs extended by the parts not yet in it, in order
AppendUnique(descs, parts) ==
    IF parts = <<>> THEN descs
    ELSE AppendUnique(IF InSeq(Head(parts), descs) THEN descs ELSE Append(descs, Head(parts)),
                      Tail(parts))

RECURSIVE GroupDescs(_, _, _, _)
\* groups[noun]["descs"]: the descriptor words of the group, first seen first
GroupDescs(tokens, noun, i, descs) ==
    IF i > Len(tokens) THEN descs
    ELSE IF InGroup(tokens, i, noun)
         THEN GroupDescs(tokens, noun, i + 1,
                         AppendUnique(descs, SplitWords(NounMatch(tokens[i]).desc)))
         ELSE GroupDescs(tokens, noun, i + 1, descs)

\* groups[noun]["first_idx"]
FirstIdx(tokens, noun) == SetMin({i \in DOMAIN tokens : InGroup(tokens, i, noun)})

\* f"{merged_desc} {noun}".strip()
MergedPhrase(tokens, noun) ==
    Strip(Strip(Join(GroupDescs(tokens, noun, 1, <<>>), " ")) \o " " \o noun)

RECURSIVE MergeFrom(_, _)
MergeFrom(tokens, i) ==
    IF i > Len(tokens) THEN <<>>
    ELSE LET m == NounMatch(tokens[i])
         IN  IF ~m.found THEN <<tokens[i]>> \o MergeFrom(tokens, i + 1)
             ELSE IF i = FirstIdx(tokens, GroupNoun(m, tokens))
                  THEN <<MergedPhrase(tokens, GroupNoun(m, tokens))>> \o MergeFrom(tokens, i + 1)
                  ELSE MergeFrom(tokens, i + 1)

\* _merge_descriptor_groups(tokens)
MergeDescriptorGroups(tokens) ==
    IF \A i \in DOMAIN tokens : ~NounMatch(tokens[i]).found THEN tokens
    ELSE MergeFrom(tokens, 1)

(***************************************************************************)
(* Near-duplicate filter, exact dedup, safety gate, retention floor.       *)
(***************************************************************************)

RECURSIVE DedupeNearFrom(_, _, _, _)
DedupeNearFrom(tokens, threshold, i, kept) ==
    IF i > Len(tokens) THEN kept
    ELSE LET t == tokens[i]
         IN  IF t = "" THEN DedupeNearFrom(tokens, threshold, i + 1, kept)
             ELSE IF \E k \in DOMAIN kept : ScoreAtLeast(QRatio(t, kept[k]), threshold)
                  THEN DedupeNearFrom(tokens, threshold, i + 1, kept)
                  ELSE DedupeNearFrom(tokens, threshold, i + 1, Append(kept, t))

\* a near-duplicate filter run with the threshold of its signature, 92
DedupeNearDefault(tokens, threshold) == DedupeNearFrom(tokens, 92, 1, <<>>)

\* _dedupe_near(tokens, threshold); the except branch needs a non-string
\* phrase and is not reachable from string input
DedupeNear(tokens, threshold) == DedupeNearFrom(tokens, threshold, 1, <<>>)

NearThreshold == 94

RECURSIVE DedupeExactFrom(_, _, _)
DedupeExactFrom(tokens, i, out) ==
    IF i > Len(tokens) THEN out
    ELSE DedupeExactFrom(tokens, i + 1,
                         IF InSeq(tokens[i], out) THEN out ELSE Append(out, tokens[i]))

RECURSIVE DedupeExactPrepends(_)
\* an exact dedup that builds its output back to front
DedupeExactPrepends(tokens) ==
    IF tokens = <<>> THEN <<>>
    ELSE LET rest == DedupeExactPrepends(Tail(tokens))
         IN  IF InSeq(Head(tokens), rest) THEN rest ELSE Append(rest, Head(tokens))

\* the seen-set pass: first occurrences, in order
DedupeExact(tokens) == DedupeExactFrom(tokens, 1, <<>>)

\* the SFW substitution of one phrase
Cover(t) ==
    IF t \in {"nipples", "areolae", "erect nipples"} THEN "covered nipples"
    ELSE IF t = "penis" THEN "covered penis"
    ELSE IF t = "anus" THEN "covered anus"
    ELSE IF t = "pubic hair" THEN "pubic hair peek"
    ELSE t

\* the if cfg.sfw_mode block
SafetyGate(out, sfw_mode) ==
    IF sfw_mode THEN [i \in DOMAIN out |-> Cover(out[i])] ELSE out

\* int(round(num / den)) for a non-negative fraction: Python 3 rounds halves
\* to the even neighbour (the float products 0.35 * n and 0.85 * n round the
\* same way as the exact fractions for every n below 90)
RoundHalfEven(num, den) ==
    LET q == num \div den
        r == num % den
    IN  IF 2 * r < den THEN q
        ELSE IF 2 * r > den THEN q + 1
        ELSE IF q % 2 = 0 THEN q ELSE q + 1

FloorAbsolute == 10

FloorPercent == 35

\* min_keep = max(10, int(round(0.35 * original_count)))
MinKeep(original_count) ==
    Max(FloorAbsolute, RoundHalfEven(FloorPercent * original_count, 100))

RECURSIVE TopUpStopsShort(_, _, _, _)
\* a top-up whose loop stops one phrase before min_keep
TopUpStopsShort(tokens, min_keep, i, out) ==
    IF i > Len(tokens) \/ Len(out) + 1 >= min_keep THEN out
    ELSE LET key == NormKey(tokens[i])
         IN  TopUpStopsShort(tokens, min_keep, i + 1,
                             IF InSeq(key, out) THEN out ELSE Append(out, key))

RECURSIVE TopUpFrom(_, _, _, _)
\* the top-up loop over the original tokens
TopUpFrom(tokens, min_keep, i, out) ==
    IF i > Len(tokens) \/ Len(out) >= min_keep THEN out
    ELSE LET key == NormKey(tokens[i])
         IN  TopUpFrom(tokens, min_keep, i + 1,
                       IF InSeq(key, out) THEN out ELSE Append(out, key))

\* a floor enforcer that re-appends every missing original token
EnforceFloorAppendsAll(out, tokens) == TopUpFrom(tokens, Len(out) + Len(tokens), 1, out)

\* the retention floor: original tokens are re-appended until min_keep
EnforceFloor(out, tokens) ==
    IF Len(out) < MinKeep(Len(tokens)) THEN TopUpFrom(tokens, MinKeep(Len(tokens)), 1, out)
    ELSE out

\* consolidate_algorithmic's stages after the tokenizer, as functions of the
\* previous stage's sequence
CanonicalizeAll(tokens, allowlist, alias_map) ==
    [i \in DOMAIN tokens |-> AliasOrCanonical(tokens[i], allowlist, alias_map)]

Normalize(mapped) ==
    LET kept == DropFiller(CollapsePersonCount(mapped))
    IN  MergeDescriptorGroups([i \in DOMAIN kept |-> RewriteGloss(kept[i])])

Dedupe(norm_tokens) == DedupeExact(DedupeNear(norm_tokens, NearThreshold))

(***************************************************************************)
(* The fallback compactor.                                                 *)
(***************************************************************************)

TargetPercent == 85

\* target = max(min_keep, int(round(0.85 * original_n)))
Target(original_n) ==
    Max(MinKeep(original_n), RoundHalfEven(TargetPercent * original_n, 100))

RECURSIVE SoftKeepFrom(_, _, _, _, _)
\* the keep loop: once target tokens are kept every token is kept, before
\* that the drift tokens are skipped
SoftKeepFrom(toks, drift_set, target, i, keep) ==
    IF i > Len(toks) THEN keep
    ELSE IF Len(keep) >= target THEN SoftKeepFrom(toks, drift_set, target, i + 1, Append(keep, toks[i]))
    ELSE IF Lower(toks[i]) \in drift_set
         THEN SoftKeepFrom(toks, drift_set, target, i + 1, keep)
         ELSE SoftKeepFrom(toks, drift_set, target, i + 1, Append(keep, toks[i]))

\* s precedes t in Python's string order (code points, then length)
StrLess(s, t) ==
    LET n == Min(Len(s), Len(t))
        diff == {i \in 1..n : CharAt(s, i) # CharAt(t, i)}
    IN  IF diff = {} THEN Len(s) < Len(t)
        ELSE CodePoint[CharAt(s, SetMin(diff))] < CodePoint[CharAt(t, SetMin(diff))]

\* sorted(toks, key=lambda s: s.lower()): stable, so equal keys keep their order
SortedByLower(toks) ==
    LET keys == [i \in DOMAIN toks |-> Lower(toks[i])]
        Before(i, j) == \/ StrLess(keys[i], keys[j])
                        \/ (keys[i] = keys[j] /\ i < j)
        rank == [i \in DOMAIN toks |-> Cardinality({j \in DOMAIN toks : Before(j, i)}) + 1]
    IN  [r \in DOMAIN toks |-> toks[CHOOSE i \in DOMAIN toks : rank[i] = r]]

\* a soft compaction without the sorted fallback
SoftCompactKeepsOrder(input_text, drift) ==
    LET toks == SplitAndClean(input_text)
        drift_set == {Lower(drift[k]) : k \in DOMAIN drift}
    IN  Join(SoftKeepFrom(toks, drift_set, Target(Len(toks)), 1, <<>>), ", ")

\* _soft_compact_fallback(input_text, cfg)
SoftCompactFallback(input_text, drift) ==
    LET toks == SplitAndClean(input_text)
        drift_set == {Lower(drift[k]) : k \in DOMAIN drift}
        keep == SoftKeepFrom(toks, drift_set, Target(Len(toks)), 1, <<>>)
    IN  IF toks = <<>> THEN ""
        ELSE IF keep = <<>> \/ Join(keep, ", ") = input_text
             THEN Join(SortedByLower(toks), ", ")
             ELSE Join(keep, ", ")

\* consolidate_algorithmic(input_text, cfg) as one function
ConsolidateAlgorithmic(text, config) ==
    LET toks == SplitAndClean(text)
    IN  IF toks = <<>> THEN ""
        ELSE Join(EnforceFloor(SafetyGate(Dedupe(Normalize(
                      CanonicalizeAll(toks, config.allowlist, config.alias_map))),
                      config.sfw_mode), toks), ", ")

\* a legacy entry point that takes its context from the keyword only
WithLlmKeywordOnly(text, config, how) ==
    IF how.kwcfg THEN ConsolidateAlgorithmic(text, config) ELSE text

\* consolidate_with_llm(*args, **kwargs) called with the text as first
\* positional argument, how.nargs positional arguments in all, and the context
\* as second positional argument or as keyword cfg (how.kwcfg)
ConsolidateWithLlm(text, config, how) ==
    LET has_args == how.nargs > 0
        has_cfg == how.kwcfg \/ how.nargs > 1
    IN  IF ~has_cfg THEN (IF has_args THEN text ELSE "")
        ELSE ConsolidateAlgorithmic(IF has_args THEN text ELSE "", config)

RECURSIVE DedupeCleanFrom(_, _, _)
\* the loop of dedupe_and_clean_prompt: non-empty phrases not seen before
DedupeCleanFrom(phrases, i, unique_phrases) ==
    IF i > Len(phrases) THEN unique_phrases
    ELSE IF phrases[i] # "" /\ ~InSeq(phrases[i], unique_phrases)
         THEN DedupeCleanFrom(phrases, i + 1, Append(unique_phrases, phrases[i]))
         ELSE DedupeCleanFrom(phrases, i + 1, unique_phrases)

\* a deduplication that compares and keeps the phrases unstripped
DedupeCleanUnstripped(text) ==
    IF text = "" THEN text
    ELSE Join(DedupeCleanFrom(SplitComma(text), 1, <<>>), ", ")

\* dedupe_and_clean_prompt(text)
DedupeAndCleanPrompt(text) ==
    IF text = "" THEN text
    ELSE Join(DedupeCleanFrom(StripAll(SplitComma(text)), 1, <<>>), ", ")

(***************************************************************************)
(* Inputs.  A prompt is up to MaxPhrases raw segments of one scenario's     *)
(* pool followed by the first 0 or MaxPad phrases of Fillers, joined with   *)
(* ", ", consolidated under the scenario's vocabulary and SFW modes; the    *)
(* prompts of Examples are consolidated under every configuration.          *)
(***************************************************************************)

MaxPhrases == 2

MaxPad == 9

MaxPasses == 2

\* short phrases that no stage relates to each other or to a pool
Fillers == <<"sky", "hat", "sun", "cat", "bed", "gym", "zoo", "owl", "ivy", "fog", "elk", "pub">>

\* the vocabularies a ConsolidationConfig is loaded with: allowlist and drift
\* are the stripped non-empty lines of their files, alias_map the items of
\* alias_map.json
EmptyVocabulary == [allowlist |-> <<>>, alias_map |-> <<>>, drift |-> <<>>]

SampleVocabulary ==
    [allowlist |-> <<"blue eyes", "red hair">>,
     alias_map |-> <<[aliases |-> "photo, photograph", canon |-> "photography"]>>,
     drift |-> <<"sky">>]

\* a vocabulary whose rules overlap: photograph is an allowlist member and an
\* alias, red hairs is an alias and within fuzzy reach of red hair
OverlapVocabulary ==
    [allowlist |-> <<"red hair", "photograph">>,
     alias_map |-> <<[aliases |-> "photo, photograph, red hairs", canon |-> "photography"]>>,
     drift |-> <<>>]

Vocabularies == {EmptyVocabulary, SampleVocabulary}

Scenarios ==
    {[pool |-> {"solo", "1girl", "hair", "large breasts", "perky breasts", "_"},
      vocabulary |-> EmptyVocabulary, sfw |-> {FALSE}],
     [pool |-> {"red hair", "red hairs", "Red_Hair", ""},
      vocabulary |-> EmptyVocabulary, sfw |-> {FALSE}],
     [pool |-> {"penis", "nipples", "areolae", "pubic hair"},
      vocabulary |-> EmptyVocabulary, sfw |-> BOOLEAN],
     [pool |-> {"photo", "photograph", "Red_Hairs", "red hair", "blue eyes"},
      vocabulary |-> SampleVocabulary, sfw |-> {FALSE}]}

\* 29 phrases: ten distinct letters, the filler hair, and 18 repeats
LongExample ==
    "a, b, c, d, e, f, g, h, i, j, hair, a, a, a, a, a, a, a, a, a, a, a, a, a, a, a, a, a, a"

Examples == {"penis, blue eyes", "solo, 1girl, blue eyes",
             "large breasts, perky breasts, blue eyes", "photo, blue eyes",
             "red hair, red hair, blue eyes", " , ,", "b, a", "b,a",
             "large breasts, perky breasts, sky, hat, sun, cat, bed, gym, zoo, owl",
             LongExample}

Cores(pool) == UNION {[1..k -> pool] : k \in 0..MaxPhrases}

Pads == {SubSeq(Fillers, 1, k) : k \in {0, Min(MaxPad, Len(Fillers))}}

Texts(pool) == {Join(core \o pad, ", ") : core \in Cores(pool), pad \in Pads}

\* a call that empties the drift list of the context it was given
ContextDrained(config) == [config EXCEPT !.drift = <<>>]

\* the context after a call of consolidate_algorithmic, consolidate_with_llm
\* or _soft_compact_fallback: none of them assigns to an attribute of cfg or
\* changes one of its collections in place
ContextAfterCall(config) == config

Config(vocabulary, sfw_mode) ==
    [allowlist |-> vocabulary.allowlist, alias_map |-> vocabulary.alias_map,
     drift |-> vocabulary.drift, sfw_mode |-> sfw_mode]

(***************************************************************************)
(* State.                                                                  *)
(***************************************************************************)

VARIABLES
    cfg,          \* the ConsolidationConfig: allowlist, alias_map, drift, sfw_mode
    input_text,   \* the argument of the current call
    fn,           \* the function called
    pc,           \* the stage the call has reached
    pass,         \* 1 for a call on a prompt, 2.. for a call on the previous result
    history,      \* the completed passes before this one
    tokens,       \* _split_and_clean(input_text)
    mapped,       \* the canonicalized sequence
    norm_tokens,  \* after the structural normalizer
    reduced,      \* after the near-duplicate and exact dedup passes
    covered,      \* after the safety gate
    out,          \* after the floor top-up
    stages,       \* the pipeline stages the call has run
    result,       \* the returned string
    call          \* how consolidate_with_llm was given its arguments

VARIABLES
    fs,               \* the status of each configuration file in each data directory
    loaded,           \* the ConsolidationConfig the constructor returned
    raised,           \* the exception that ended the constructor or the try block
    optimize_prompt,  \* the node's optimize_prompt input
    module_loads,     \* whether prompt_consolidator.py can be imported
    original_segments,\* the six positive segments as passed to condition
    segments,         \* the six positive segments as condition holds them
    pos_text,         \* the combined positive text
    npc               \* the step condition or the constructor has reached

node_vars == <<fs, loaded, raised, optimize_prompt, module_loads, original_segments,
               segments, pos_text, npc>>

vars == <<cfg, input_text, fn, pc, pass, history, tokens, mapped, norm_tokens,
          reduced, covered, out, stages, result, call, node_vars>>

NoResult == "<none>"

\* consolidate_with_llm has not been called
NoCall == [nargs |-> 0, kwcfg |-> FALSE, text |-> "str"]

(***************************************************************************)
(* The configuration files and ConsolidationConfig.__init__.               *)
(***************************************************************************)

AllowlistFile == "allowlists/allowlist.txt"

WeightableFile == "allowlists/weightable_tags.txt"

MediaFile == "allowlists/media_tags.txt"

DriftFile == "allowlists/generic_drift.txt"

AliasMapFile == "maps/alias_map.json"

ModifiersFile == "features/modifiers.json"

LineFiles == {AllowlistFile, WeightableFile, MediaFile, DriftFile}

JsonFiles == {AliasMapFile, ModifiersFile}

ConfigFiles == LineFiles \cup JsonFiles

\* <base_dir>/data and <base_dir>/essence-extractor/data
NewDir == "data"

LegacyDir == "essence-extractor/data"

DataDirs == {NewDir, LegacyDir}

\* what the files hold where they are installed and readable
InstalledVocabulary == SampleVocabulary

InstalledWeightable == <<"smile">>

InstalledMedia == <<"photo">>

InstalledModifiers == <<"intensity">>

\* os.path.isfile: true of a file that exists, readable or not
IsFile(files, dir, file) == files[dir][file] # "missing"

\* a resolution that prefers the legacy layout
ResolveLegacyFirst(files) ==
    IF IsFile(files, LegacyDir, AllowlistFile) THEN LegacyDir ELSE NewDir

\* _resolve_data_dir(base_dir)
ResolveDataDir(files) ==
    IF IsFile(files, NewDir, AllowlistFile) THEN NewDir
    ELSE IF IsFile(files, LegacyDir, AllowlistFile) THEN LegacyDir
    ELSE NewDir

\* _read_lines(path): the stripped non-empty lines, [] on OSError
ReadLines(files, dir, file, lines) ==
    IF files[dir][file] = "ok" THEN lines ELSE <<>>

\* the exception of open(path) followed by json.load(f)
JsonLoadError(status) ==
    IF status = "missing" THEN "FileNotFoundError"
    ELSE IF status = "unreadable" THEN "PermissionError"
    ELSE IF status = "malformed" THEN "JSONDecodeError"
    ELSE "none"

NoConfig == [constructed |-> FALSE]

\* ConsolidationConfig(base_dir, sfw_mode): the exception raised, or the object
NewConfig(files, sfw_mode) ==
    LET dir == ResolveDataDir(files)
        alias_error == JsonLoadError(files[dir][AliasMapFile])
        modifiers_error == JsonLoadError(files[dir][ModifiersFile])
    IN  IF alias_error # "none" THEN [raised |-> alias_error, config |-> NoConfig]
        ELSE IF modifiers_error # "none" THEN [raised |-> modifiers_error, config |-> NoConfig]
        ELSE [raised |-> "none",
              config |->
                [constructed |-> TRUE,
                 data_dir |-> dir,
                 sfw_mode |-> sfw_mode,
                 allowlist |-> ReadLines(files, dir, AllowlistFile, InstalledVocabulary.allowlist),
                 weightable |-> ReadLines(files, dir, WeightableFile, InstalledWeightable),
                 media |-> ReadLines(files, dir, MediaFile, InstalledMedia),
                 drift |-> ReadLines(files, dir, DriftFile, InstalledVocabulary.drift),
                 alias_map |-> IF files[dir][AliasMapFile] = "ok"
                               THEN InstalledVocabulary.alias_map ELSE <<>>,
                 alias_is_dict |-> files[dir][AliasMapFile] = "ok",
                 modifiers |-> InstalledModifiers]]

(***************************************************************************)
(* EncodingEnchantress.condition, up to the encoding of the segments.      *)
(***************************************************************************)

\* the order in which condition processes the segments
ProcessOrder == <<"quality", "scene", "glamour", "body", "aesthetic", "pose">>

\* the order in which condition combines them into pos_text
CombineOrder == <<"quality", "scene", "body", "glamour", "aesthetic", "pose">>

SegmentNames == {ProcessOrder[i] : i \in DOMAIN ProcessOrder}

\* _combine_text(*args)
CombineText(args) ==
    Join(SelectSeq(StripAll(SelectSeq(args, LAMBDA a : a # "")), LAMBDA a : a # ""), ", ")

\* _combine_text(quality, scene, body, glamour, aesthetic, pose)
CombineSegments(segs) == CombineText([i \in DOMAIN CombineOrder |-> segs[CombineOrder[i]]])

\* the step after the processing of a segment
NextStep(name) ==
    LET i == CHOOSE k \in DOMAIN ProcessOrder : ProcessOrder[k] = name
    IN  IF i = Len(ProcessOrder) THEN "recombine" ELSE ProcessOrder[i + 1]

\* the direct base class of an exception
BaseClass(exc) ==
    IF exc \in {"FileNotFoundError", "PermissionError"} THEN "OSError"
    ELSE IF exc = "JSONDecodeError" THEN "ValueError"
    ELSE "Exception"

\* the except clauses of the processing block
CaughtClasses == {"ImportError", "AttributeError", "FileNotFoundError", "OSError",
                  "RuntimeError", "TypeError", "ValueError"}

IsCaught(exc) == exc \in CaughtClasses \/ BaseClass(exc) \in CaughtClasses

\* cfg.alias_map.items() on an alias_map that is not a dict: reached by the
\* first token that is not an allowlist member
AliasLookupFails(text, config) ==
    /\ ~config.alias_is_dict
    /\ \E i \in DOMAIN SplitAndClean(text) :
           ~InSeq(NormKey(SplitAndClean(text)[i]), config.allowlist)

\* every file of a directory in one status
Uniform(status) == [f \in ConfigFiles |-> status]

\* the data directory is installed in the new layout, no legacy directory
InstalledFiles == [d \in DataDirs |-> IF d = NewDir THEN Uniform("ok") ELSE Uniform("missing")]

\* the new-layout files each present, missing or unreadable; the legacy
\* directory absent or complete
FsStates ==
    {[d \in DataDirs |-> IF d = NewDir THEN new ELSE Uniform(legacy)] :
        new \in [ConfigFiles -> {"ok", "missing", "unreadable"}],
        legacy \in {"ok", "missing"}}

\* the installations condition is run on: complete, legacy only, none, and
\* the new layout with one JSON file missing, unreadable, not JSON, or
\* alias_map.json holding a JSON array
FsSamples ==
    {InstalledFiles,
     [d \in DataDirs |-> IF d = LegacyDir THEN Uniform("ok") ELSE Uniform("missing")],
     [d \in DataDirs |-> Uniform("missing")]}
    \cup {[InstalledFiles EXCEPT ![NewDir][f] = st] :
              f \in JsonFiles, st \in {"missing", "unreadable", "malformed"}}
    \cup {[InstalledFiles EXCEPT ![NewDir][AliasMapFile] = "not_object"]}

MaxSegments == 2

SegmentTexts == {"red_hair", "photo"}

NoSegments == [n \in SegmentNames |-> ""]

\* the six segments with at most MaxSegments of them non-empty
SegmentChoices ==
    {segs \in [SegmentNames -> SegmentTexts \cup {""}] :
        Cardinality({n \in SegmentNames : segs[n] # ""}) <= MaxSegments}

\* neither the constructor nor condition is running
NodeOff ==
    /\ fs = InstalledFiles
    /\ loaded = NoConfig
    /\ raised = "none"
    /\ optimize_prompt = FALSE
    /\ module_loads = TRUE
    /\ original_segments = NoSegments
    /\ segments = NoSegments
    /\ pos_text = ""
    /\ npc = "off"

\* no prompt function is being called
PromptOff ==
    /\ cfg = Config(EmptyVocabulary, FALSE)
    /\ input_text = ""
    /\ fn = "none"
    /\ pc = "off"
    /\ pass = 1
    /\ history = <<>>
    /\ tokens = <<>>
    /\ mapped = <<>>
    /\ norm_tokens = <<>>
    /\ reduced = <<>>
    /\ covered = <<>>
    /\ out = <<>>
    /\ stages = <<>>
    /\ result = NoResult
    /\ call = NoCall

prompt_vars == <<cfg, input_text, fn, pc, pass, history, tokens, mapped, norm_tokens,
                 reduced, covered, out, stages, result, call>>

Init ==
    /\ \/ \E sc \in Scenarios :
             /\ cfg \in {Config(sc.vocabulary, b) : b \in sc.sfw}
             /\ input_text \in Texts(sc.pool)
       \/ /\ cfg \in {Config(v, b) : v \in Vocabularies, b \in BOOLEAN}
          /\ input_text \in Examples
    /\ fn = "none"
    /\ pc = "idle"
    /\ pass = 1
    /\ history = <<>>
    /\ tokens = <<>>
    /\ mapped = <<>>
    /\ norm_tokens = <<>>
    /\ reduced = <<>>
    /\ covered = <<>>
    /\ out = <<>>
    /\ stages = <<>>
    /\ result = NoResult
    /\ call = NoCall
    /\ NodeOff

\* consolidate_algorithmic(text, cfg) is entered: the tokenizer runs and a
\* text without tokens returns "" at once
Enter(text) ==
    /\ fn' = "consolidate_algorithmic"
    /\ tokens' = SplitAndClean(text)
    /\ mapped' = <<>>
    /\ norm_tokens' = <<>>
    /\ reduced' = <<>>
    /\ covered' = <<>>
    /\ out' = <<>>
    /\ stages' = <<>>
    /\ IF tokens' = <<>>
       THEN pc' = "done" /\ result' = ""
       ELSE pc' = "canonicalize" /\ result' = NoResult

\* consolidate_algorithmic(input_text, cfg) is called on a prompt
CallConsolidate ==
    /\ pc = "idle"
    /\ Enter(input_text)
    /\ UNCHANGED <<cfg, input_text, pass, history, call, node_vars>>

\* the canonicalizer loop
Canonicalize ==
    /\ pc = "canonicalize"
    /\ mapped' = CanonicalizeAll(tokens, cfg.allowlist, cfg.alias_map)
    /\ stages' = Append(stages, "canonicalize")
    /\ pc' = "normalize"
    /\ UNCHANGED <<cfg, input_text, fn, pass, history, tokens, norm_tokens, reduced,
                   covered, out, result, call, node_vars>>

\* person-count collapse, filler drop, synonym rewrite, descriptor merge
NormalizeStage ==
    /\ pc = "normalize"
    /\ norm_tokens' = Normalize(mapped)
    /\ stages' = Append(stages, "normalize")
    /\ pc' = "dedupe"
    /\ UNCHANGED <<cfg, input_text, fn, pass, history, tokens, mapped, reduced,
                   covered, out, result, call, node_vars>>

\* _dedupe_near(norm_tokens, threshold=94) and the seen-set pass
DedupeStage ==
    /\ pc = "dedupe"
    /\ reduced' = Dedupe(norm_tokens)
    /\ stages' = Append(stages, "dedupe")
    /\ pc' = "gate"
    /\ UNCHANGED <<cfg, input_text, fn, pass, history, tokens, mapped, norm_tokens,
                   covered, out, result, call, node_vars>>

\* the SFW substitution, when cfg.sfw_mode
GateStage ==
    /\ pc = "gate"
    /\ covered' = SafetyGate(reduced, cfg.sfw_mode)
    /\ stages' = Append(stages, "gate")
    /\ pc' = "floor"
    /\ UNCHANGED <<cfg, input_text, fn, pass, history, tokens, mapped, norm_tokens,
                   reduced, out, result, call, node_vars>>

\* the retention floor and the return
FloorStage ==
    /\ pc = "floor"
    /\ out' = EnforceFloor(covered, tokens)
    /\ result' = Join(out', ", ")
    /\ stages' = Append(stages, "floor")
    /\ pc' = "done"
    /\ cfg' = ContextAfterCall(cfg)
    /\ UNCHANGED <<input_text, fn, pass, history, tokens, mapped, norm_tokens,
                   reduced, covered, call, node_vars>>

\* consolidate_algorithmic is called again on its own result
ConsolidateAgain ==
    /\ pc = "done"
    /\ fn = "consolidate_algorithmic"
    /\ pass < MaxPasses
    /\ history' = Append(history, [input_text |-> input_text, tokens |-> tokens,
                                   covered |-> covered, result |-> result])
    /\ input_text' = result
    /\ pass' = pass + 1
    /\ Enter(result)
    /\ UNCHANGED <<cfg, call, node_vars>>

\* _soft_compact_fallback(input_text, cfg) is called on a prompt
CallSoftCompact ==
    /\ pc = "idle"
    /\ fn' = "_soft_compact_fallback"
    /\ tokens' = SplitAndClean(input_text)
    /\ result' = SoftCompactFallback(input_text, cfg.drift)
    /\ pc' = "done"
    /\ cfg' = ContextAfterCall(cfg)
    /\ UNCHANGED <<input_text, pass, history, mapped, norm_tokens, reduced,
                   covered, out, stages, call, node_vars>>

Next ==
    \/ CallConsolidate
    \/ Canonicalize
    \/ NormalizeStage
    \/ DedupeStage
    \/ GateStage
    \/ FloorStage
    \/ ConsolidateAgain
    \/ CallSoftCompact

Spec == Init /\ [][Next]_vars

(***************************************************************************)
(* The other entry points: consolidate_with_llm and                        *)
(* dedupe_and_clean_prompt, called on the prompts without padding.         *)
(***************************************************************************)

\* one positional argument and no context, the context as second positional
\* argument, the context as keyword cfg
CallShapes == {[nargs |-> 1, kwcfg |-> FALSE, text |-> "str"],
               [nargs |-> 2, kwcfg |-> FALSE, text |-> "str"],
               [nargs |-> 1, kwcfg |-> TRUE, text |-> "str"]}

\* the types of the argument the tokenizer is called with
ArgTypes == {"str", "NoneType", "int", "list"}

RawExamples == {"text,, more text, , even more", "purple hair,purple hair ,  Purple hair"}

\* prompts for the single stages: phrases between the two thresholds of the
\* near-duplicate filter, person-count tags of equal length, noun groups
StageExamples == {"red hat, red hats, red hat",
                  "red hair, sky, red hairs",
                  "2boys, sky, 1girl, hat", "solo, sky, 1girl, hat, 2boys",
                  "pale skin, sky, big ass, soft pale skin, hat, big fat ass",
                  "red lipstick, sky, gloss lipstick, wet lipstick",
                  "red lipstick, sky, wet red lipstick, lipstick",
                  "wet lipstick, pink lip gloss"}

EntryScenarios ==
    Scenarios \cup {[pool |-> {"photograph", "photographs", "Red_Hairs", "photo"},
                     vocabulary |-> OverlapVocabulary, sfw |-> {FALSE}]}

EntryInit ==
    /\ \/ \E sc \in EntryScenarios :
             /\ cfg \in {Config(sc.vocabulary, b) : b \in sc.sfw}
             /\ input_text \in {Join(core, ", ") : core \in Cores(sc.pool)}
       \/ /\ cfg \in {Config(v, b) : v \in Vocabularies, b \in BOOLEAN}
          /\ input_text \in Examples \cup RawExamples \cup StageExamples
    /\ fn = "none"
    /\ pc = "idle"
    /\ pass = 1
    /\ history = <<>>
    /\ tokens = <<>>
    /\ mapped = <<>>
    /\ norm_tokens = <<>>
    /\ reduced = <<>>
    /\ covered = <<>>
    /\ out = <<>>
    /\ stages = <<>>
    /\ result = NoResult
    /\ call = NoCall
    /\ NodeOff

\* consolidate_with_llm(input_text, cfg) or consolidate_with_llm(input_text, cfg=cfg)
CallWithLlm ==
    /\ pc = "idle"
    /\ \E how \in CallShapes :
          /\ call' = how
          /\ result' = ConsolidateWithLlm(input_text, cfg, how)
    /\ fn' = "consolidate_with_llm"
    /\ tokens' = SplitAndClean(input_text)
    /\ pc' = "done"
    /\ cfg' = ContextAfterCall(cfg)
    /\ UNCHANGED <<input_text, pass, history, mapped, norm_tokens, reduced,
                   covered, out, stages, node_vars>>

\* dedupe_and_clean_prompt(input_text)
CallDedupeClean ==
    /\ pc = "idle"
    /\ fn' = "dedupe_and_clean_prompt"
    /\ tokens' = SplitAndClean(input_text)
    /\ result' = DedupeAndCleanPrompt(input_text)
    /\ pc' = "done"
    /\ UNCHANGED <<cfg, input_text, pass, history, mapped, norm_tokens, reduced,
                   covered, out, stages, call, node_vars>>

\* dedupe_and_clean_prompt is called again on its own result
DedupeCleanAgain ==
    /\ pc = "done"
    /\ fn = "dedupe_and_clean_prompt"
    /\ pass < MaxPasses
    /\ history' = Append(history, [input_text |-> input_text, tokens |-> tokens,
                                   covered |-> covered, result |-> result])
    /\ input_text' = result
    /\ pass' = pass + 1
    /\ tokens' = SplitAndClean(result)
    /\ result' = DedupeAndCleanPrompt(result)
    /\ UNCHANGED <<cfg, fn, pc, mapped, norm_tokens, reduced, covered, out, stages,
                   call, node_vars>>

\* _alias_or_canonical(tok, cfg) is applied to each phrase of the text
CallCanonicalizer ==
    /\ pc = "idle"
    /\ fn' = "_alias_or_canonical"
    /\ tokens' = SplitAndClean(input_text)
    /\ mapped' = CanonicalizeAll(tokens', cfg.allowlist, cfg.alias_map)
    /\ pc' = "done"
    /\ UNCHANGED <<cfg, input_text, pass, history, norm_tokens, reduced, covered, out,
                   stages, result, call, node_vars>>

\* _dedupe_near(phrases, threshold=94) is applied to the phrases of the text
CallDedupeNear ==
    /\ pc = "idle"
    /\ fn' = "_dedupe_near"
    /\ tokens' = SplitAndClean(input_text)
    /\ reduced' = DedupeNear(tokens', NearThreshold)
    /\ pc' = "done"
    /\ UNCHANGED <<cfg, input_text, pass, history, mapped, norm_tokens, covered, out,
                   stages, result, call, node_vars>>

\* the person-count collapse is applied to the phrases of the text
CallCollapse ==
    /\ pc = "idle"
    /\ fn' = "person_count_collapse"
    /\ tokens' = SplitAndClean(input_text)
    /\ mapped' = CollapsePersonCount(tokens')
    /\ pc' = "done"
    /\ UNCHANGED <<cfg, input_text, pass, history, norm_tokens, reduced, covered, out,
                   stages, result, call, node_vars>>

\* the synonym rewrite and _merge_descriptor_groups are applied to the
\* phrases of the text
CallMerge ==
    /\ pc = "idle"
    /\ fn' = "_merge_descriptor_groups"
    /\ tokens' = SplitAndClean(input_text)
    /\ mapped' = [i \in DOMAIN tokens' |-> RewriteGloss(tokens'[i])]
    /\ norm_tokens' = MergeDescriptorGroups(mapped')
    /\ pc' = "done"
    /\ UNCHANGED <<cfg, input_text, pass, history, reduced, covered, out,
                   stages, result, call, node_vars>>

\* _split_and_clean is called with the text or with a value of another type
CallSplitAndClean ==
    /\ pc = "idle"
    /\ \E type \in ArgTypes :
          /\ call' = [nargs |-> 1, kwcfg |-> FALSE, text |-> type]
          /\ raised' = SplitAndCleanOf(type, input_text).raised
          /\ tokens' = SplitAndCleanOf(type, input_text).parts
    /\ fn' = "_split_and_clean"
    /\ pc' = "done"
    /\ UNCHANGED <<cfg, input_text, pass, history, mapped, norm_tokens, reduced, covered,
                   out, stages, result, fs, loaded, optimize_prompt, module_loads,
                   original_segments, segments, pos_text, npc>>

EntryNext ==
    \/ CallCanonicalizer
    \/ CallSplitAndClean
    \/ CallCollapse
    \/ CallMerge
    \/ CallDedupeNear
    \/ CallWithLlm
    \/ CallDedupeClean
    \/ DedupeCleanAgain

EntrySpec == EntryInit /\ [][EntryNext]_vars

(***************************************************************************)
(* Sequences of calls on one context: the three consolidation functions    *)
(* called one after the other with the same cfg and text.                  *)
(***************************************************************************)

ConsolidationFunctions ==
    {"consolidate_algorithmic", "consolidate_with_llm", "_soft_compact_fallback"}

\* the caller, a call having returned, is about to make another one with the
\* same context and text
CallAgain ==
    /\ pc = "done"
    /\ fn \in ConsolidationFunctions
    /\ pass < MaxPasses
    /\ pass' = pass + 1
    /\ pc' = "idle"
    /\ fn' = "none"
    /\ tokens' = <<>>
    /\ mapped' = <<>>
    /\ norm_tokens' = <<>>
    /\ reduced' = <<>>
    /\ covered' = <<>>
    /\ out' = <<>>
    /\ stages' = <<>>
    /\ result' = NoResult
    /\ call' = NoCall
    /\ UNCHANGED <<cfg, input_text, history, node_vars>>

CallsNext ==
    \/ CallConsolidate
    \/ Canonicalize
    \/ NormalizeStage
    \/ DedupeStage
    \/ GateStage
    \/ FloorStage
    \/ CallSoftCompact
    \/ CallWithLlm
    \/ CallAgain

CallsSpec == EntryInit /\ [][CallsNext]_vars

(***************************************************************************)
(* ConsolidationConfig is constructed on a base directory.                 *)
(***************************************************************************)

ConfigInit ==
    /\ PromptOff
    /\ fs \in FsStates
    /\ loaded = NoConfig
    /\ raised = "none"
    /\ optimize_prompt = FALSE
    /\ module_loads = TRUE
    /\ original_segments = NoSegments
    /\ segments = NoSegments
    /\ pos_text = ""
    /\ npc = "new"

\* ConsolidationConfig(base_dir, sfw_mode)
ConstructConfig ==
    /\ npc = "new"
    /\ \E sfw_mode \in BOOLEAN :
          LET made == NewConfig(fs, sfw_mode)
          IN  /\ raised' = made.raised
              /\ loaded' = made.config
              /\ npc' = IF made.raised = "none" THEN "constructed" ELSE "raised"
    /\ UNCHANGED <<prompt_vars, fs, optimize_prompt, module_loads, original_segments,
                   segments, pos_text>>

ConfigNext == ConstructConfig

ConfigSpec == ConfigInit /\ [][ConfigNext]_vars

(***************************************************************************)
(* EncodingEnchantress.condition is called.                                *)
(***************************************************************************)

ConditionInit ==
    /\ PromptOff
    /\ fs \in FsSamples
    /\ loaded = NoConfig
    /\ raised = "none"
    /\ optimize_prompt \in BOOLEAN
    /\ module_loads \in BOOLEAN
    /\ original_segments \in SegmentChoices
    /\ segments = original_segments
    /\ pos_text = ""
    /\ npc = "call"

\* an exception leaves the try block: a caught one is printed and condition
\* goes on to the encoding, any other propagates to the caller
Raise(exc) ==
    /\ raised' = exc
    /\ npc' = IF IsCaught(exc) THEN "encode" ELSE "propagated"

\* pos_text is combined from the segments as passed
CombineOriginal ==
    /\ npc = "call"
    /\ pos_text' = CombineSegments(segments)
    /\ npc' = IF optimize_prompt THEN "load" ELSE "encode"
    /\ UNCHANGED <<prompt_vars, fs, loaded, raised, optimize_prompt, module_loads,
                   original_segments, segments>>

\* prompt_consolidator.py is loaded as a module
LoadConsolidator ==
    /\ npc = "load"
    /\ IF module_loads
       THEN npc' = "construct" /\ UNCHANGED raised
       ELSE Raise("ImportError")
    /\ UNCHANGED <<prompt_vars, fs, loaded, optimize_prompt, module_loads,
                   original_segments, segments, pos_text>>

\* cfg = pc.ConsolidationConfig(base_dir, sfw_mode=False)
ConstructInCondition ==
    /\ npc = "construct"
    /\ LET made == NewConfig(fs, FALSE)
       IN  IF made.raised = "none"
           THEN /\ loaded' = made.config
                /\ npc' = ProcessOrder[1]
                /\ UNCHANGED raised
           ELSE /\ Raise(made.raised)
                /\ UNCHANGED loaded
    /\ UNCHANGED <<prompt_vars, fs, optimize_prompt, module_loads, original_segments,
                   segments, pos_text>>

\* one segment = process_one(segment)
ProcessOne ==
    /\ npc \in SegmentNames
    /\ LET text == segments[npc]
       IN  IF text = ""
           THEN /\ npc' = NextStep(npc)
                /\ UNCHANGED <<segments, raised>>
           ELSE IF AliasLookupFails(text, loaded)
           THEN /\ Raise("AttributeError")
                /\ UNCHANGED segments
           ELSE /\ segments' = [segments EXCEPT ![npc] = ConsolidateAlgorithmic(text, loaded)]
                /\ npc' = NextStep(npc)
                /\ UNCHANGED raised
    /\ UNCHANGED <<prompt_vars, fs, loaded, optimize_prompt, module_loads,
                   original_segments, pos_text>>

\* pos_text is combined again from the processed segments
Recombine ==
    /\ npc = "recombine"
    /\ pos_text' = CombineSegments(segments)
    /\ npc' = "encode"
    /\ UNCHANGED <<prompt_vars, fs, loaded, raised, optimize_prompt, module_loads,
                   original_segments, segments>>

ConditionNext ==
    \/ CombineOriginal
    \/ LoadConsolidator
    \/ ConstructInCondition
    \/ ProcessOne
    \/ Recombine

ConditionSpec == ConditionInit /\ [][ConditionNext]_vars

(***************************************************************************)
(* Properties.                                                             *)
(***************************************************************************)

\* a call of consolidate_algorithmic on a text with at least one phrase has
\* returned
Returned == pc = "done" /\ fn = "consolidate_algorithmic" /\ tokens # <<>>

\* the phrases a returned string splits into
Phrases(s) == SplitAndClean(s)

\* the number of ", "-joined entries of a returned string
EntryCount(s) == IF s = "" THEN 0 ELSE Len(SplitComma(s))

\* ceil(num / den)
CeilDiv(num, den) == (num + den - 1) \div den

\* the distinct lowercased, underscore-to-space forms of the tokens
KeySet(toks) == {NormKey(toks[i]) : i \in DOMAIN toks}

ExplicitTerms == {"nipples", "areolae", "erect nipples", "penis", "anus", "pubic hair"}

\* C2: with sfw_mode true no phrase of the returned string is an explicit
\* term, and "penis, blue eyes" returns exactly "covered penis, blue eyes".
C2_SfwGate ==
    (Returned /\ cfg.sfw_mode) =>
        /\ \A i \in DOMAIN Phrases(result) : Phrases(result)[i] \notin ExplicitTerms
        /\ (input_text = "penis, blue eyes" => result = "covered penis, blue eyes")

\* the second pass of a prompt with at least one phrase has returned
SecondPassReturned ==
    /\ pc = "done"
    /\ fn = "consolidate_algorithmic"
    /\ pass = 2
    /\ history[1].tokens # <<>>

\* the first pass met the retention floor without a top-up
FirstPassMetFloor ==
    Len(history[1].covered) >= MinKeep(Len(history[1].tokens))

\* C3: once the first pass satisfies the retention floor, consolidating its
\* output again returns that output.
C3_Idempotence ==
    (SecondPassReturned /\ FirstPassMetFloor) => result = history[1].result

\* the first index of x in seq
Pos(seq, x) == SetMin({i \in DOMAIN seq : seq[i] = x})

\* no two input phrases canonicalize to the same value
DistinctCanonical == \A i, j \in DOMAIN mapped : i # j => mapped[i] # mapped[j]

\* any two canonical phrases found in seq stand there in input order
InInputOrder(seq) ==
    \A i, j \in DOMAIN mapped :
        (i < j /\ InSeq(mapped[i], seq) /\ InSeq(mapped[j], seq))
            => Pos(seq, mapped[i]) < Pos(seq, mapped[j])

PcSeen == SelectSeq(mapped, LAMBDA t : t \in PcPool)

\* only the filler drop and the dedup passes changed the sequence: no
\* person-count collapse, no phrase rewritten, merged or covered, nothing
\* appended by the top-up
OnlyFiltered ==
    /\ Len(PcSeen) <= 1
    /\ norm_tokens = DropFiller(mapped)
    /\ covered = reduced
    /\ out = covered

C5_NoEmptyPhrases ==
    Returned =>
        /\ \A i \in DOMAIN SplitComma(result) : Strip(SplitComma(result)[i]) # ""
        /\ \A i \in 1..(Len(result) - 1) : SubSeq(result, i, i + 1) # ",,"

\* C6: no phrase occurs twice in the returned string, and
\* "red hair, red hair, blue eyes" returns "red hair, blue eyes".
C6_ExactDedup ==
    Returned =>
        /\ \A i, j \in DOMAIN Phrases(result) :
              i # j => Phrases(result)[i] # Phrases(result)[j]
        /\ (input_text = "red hair, red hair, blue eyes" => result = "red hair, blue eyes")

\* C7: with more than one person-count tag after canonicalization, the
\* returned string holds exactly one person-count tag, a longest one
\* ("solo, 1girl, blue eyes" keeps 1girl and blue eyes, not solo).
C7_PersonCountCollapse ==
    (Returned /\ Len(PcSeen) > 1) =>
        LET kept == SelectSeq(Phrases(result), LAMBDA t : t \in PcPool)
        IN  /\ Len(kept) = 1
            /\ InSeq(kept[1], PcSeen)
            /\ \A k \in DOMAIN PcSeen : Len(PcSeen[k]) <= Len(kept[1])
            /\ (input_text = "solo, 1girl, blue eyes" =>
                    /\ InSeq("1girl", Phrases(result))
                    /\ InSeq("blue eyes", Phrases(result))
                    /\ ~InSeq("solo", Phrases(result)))

\* the canonicalized phrases of the form "<descriptor> <noun>" with this noun
SameNoun(noun) ==
    {i \in DOMAIN mapped : NounMatch(mapped[i]).found /\ NounMatch(mapped[i]).noun = noun}

\* C8: several phrases "<descriptor> <noun>" with one noun leave exactly one
\* phrase ending in that noun, with all their descriptors in first-seen order,
\* and none of the source phrases ("large breasts, perky breasts, blue eyes"
\* returns "large perky breasts, blue eyes").
C8_DescriptorMerge ==
    Returned =>
        /\ \A k \in DOMAIN Nouns :
              Cardinality(SameNoun(Nouns[k])) > 1 =>
                  LET P == Phrases(result)
                      ending == {j \in DOMAIN P : NounMatch(P[j]).found
                                                  /\ NounMatch(P[j]).noun = Nouns[k]}
                      merged == MergedPhrase(mapped, Nouns[k])
                  IN  /\ Cardinality(ending) = 1
                      /\ InSeq(merged, P)
                      /\ \A i \in SameNoun(Nouns[k]) : mapped[i] # merged => ~InSeq(mapped[i], P)
        /\ (input_text = "large breasts, perky breasts, blue eyes"
                => result = "large perky breasts, blue eyes")

\* the alias_map entries that list this key as an alias
AliasHits(key) == {i \in DOMAIN cfg.alias_map : InSeq(key, AliasesOf(cfg.alias_map[i].aliases))}

\* C9: an input phrase that is a listed alias is replaced by its canonical
\* value and does not itself remain (with {"photo, photograph": "photography"},
\* "photo, blue eyes" returns "photography, blue eyes").
C9_AliasResolution ==
    Returned =>
        /\ \A i \in DOMAIN tokens :
              (AliasHits(tokens[i]) # {} /\ ~InSeq(tokens[i], cfg.allowlist)) =>
                  /\ InSeq(cfg.alias_map[SetMin(AliasHits(tokens[i]))].canon, Phrases(result))
                  /\ ~InSeq(tokens[i], Phrases(result))
        /\ (input_text = "photo, blue eyes" /\ cfg.alias_map # <<>>
                => result = "photography, blue eyes")

\* the text is empty or holds nothing but commas and whitespace
OnlyCommasAndSpace(text) ==
    \A i \in 1..Len(text) : CharAt(text, i) \in Whitespace \cup {","}

\* C10: on an empty, whitespace-only or commas-and-whitespace text both
\* consolidate_algorithmic and _soft_compact_fallback return "" and no
\* pipeline stage runs.
C10_EmptyInput ==
    OnlyCommasAndSpace(input_text) =>
        /\ pc \in {"idle", "done"}
        /\ stages = <<>>
        /\ (pc = "done" => result = "")

\* consolidate_algorithmic has returned from a text of commas and spaces
C10_Witness ==
    /\ pc = "done"
    /\ fn = "consolidate_algorithmic"
    /\ input_text # ""
    /\ OnlyCommasAndSpace(input_text)

\* the collection a constructed config holds for a file
Collection(config, file) ==
    IF file = AllowlistFile THEN config.allowlist
    ELSE IF file = WeightableFile THEN config.weightable
    ELSE IF file = MediaFile THEN config.media
    ELSE IF file = DriftFile THEN config.drift
    ELSE IF file = AliasMapFile THEN config.alias_map
    ELSE config.modifiers

\* C11: whichever of the six files are missing or unreadable, the constructor
\* completes without raising and the collection of each such file is empty.
C11_LoadNeverFails ==
    npc \in {"constructed", "raised"} =>
        /\ raised = "none"
        /\ loaded.constructed
        /\ \A f \in ConfigFiles :
              fs[ResolveDataDir(fs)][f] # "ok" => Collection(loaded, f) = <<>>

\* C12: with optimize_prompt on, when loading, construction or consolidation
\* fails, condition goes on normally and the segments and pos_text it uses
\* are the ones it was passed.
C12_NeverRaises ==
    (npc \in {"encode", "propagated"} /\ optimize_prompt /\ raised # "none") =>
        /\ npc = "encode"
        /\ segments = original_segments
        /\ pos_text = CombineSegments(original_segments)

\* _soft_compact_fallback has returned from a text with at least one phrase
SoftReturned == pc = "done" /\ fn = "_soft_compact_fallback" /\ tokens # <<>>

\* no phrase of the input is a drift token
NoDriftToken ==
    \A i \in DOMAIN tokens, k \in DOMAIN cfg.drift : Lower(tokens[i]) # Lower(cfg.drift[k])

\* the phrases of the input in case-insensitive sorted order, joined
SortedForm == Join(SortedByLower(tokens), ", ")

\* C13: when _soft_compact_fallback removes no token it returns the tokens
\* sorted case-insensitively and joined with ", ", whatever the spacing of
\* the input.
C13_SoftCompactSorted == (SoftReturned /\ NoDriftToken) => result = SortedForm

\* C14 as stated: the string _soft_compact_fallback returns differs from its
\* input.
C14_AlwaysChanges == SoftReturned => result # input_text

\* C14 amended: the string _soft_compact_fallback returns differs from its
\* input unless the input is already its phrases in case-insensitive sorted
\* order joined with ", ".
C14_ChangesUnlessSorted == (SoftReturned /\ input_text # SortedForm) => result # input_text

\* nothing was dropped and yet the returned string differs: the sorted form
C14_Witness ==
    /\ SoftReturned
    /\ NoDriftToken
    /\ input_text # SortedForm
    /\ result = SortedForm
    /\ Len(tokens) >= 2

\* consolidate_with_llm has returned from a call that was given a context
LegacyReturned ==
    /\ pc = "done"
    /\ fn = "consolidate_with_llm"
    /\ (call.nargs > 1 \/ call.kwcfg)

\* C15: given the context positionally or as keyword cfg,
\* consolidate_with_llm returns what consolidate_algorithmic returns for the
\* same text and context, "" for an empty text included.
C15_LegacyEntryPoint ==
    LegacyReturned =>
        /\ result = ConsolidateAlgorithmic(input_text, cfg)
        /\ (tokens = <<>> => result = "")

\* a call with the context as second positional argument that changed the text
C15_Witness ==
    /\ LegacyReturned
    /\ call.nargs = 2
    /\ tokens # <<>>
    /\ result # input_text

\* the stripped pieces of a comma-separated text, the empty ones included
Pieces(s) == StripAll(SplitComma(s))

\* C16: the result of dedupe_and_clean_prompt holds each phrase once, has no
\* empty phrase and no doubled comma, keeps the phrases in order of first
\* occurrence, and is left unchanged by a second application.
C16_DedupeClean ==
    (pc = "done" /\ fn = "dedupe_and_clean_prompt") =>
        LET P == Pieces(result)
            I == Pieces(input_text)
        IN  /\ \A a, b \in DOMAIN P : a # b => P[a] # P[b]
            /\ result # "" => \A a \in DOMAIN P : P[a] # ""
            /\ \A a \in 1..(Len(result) - 1) : SubSeq(result, a, a + 1) # ",,"
            /\ \A i \in DOMAIN I : I[i] # "" => InSeq(I[i], P)
            /\ result # "" => \A a \in DOMAIN P : InSeq(P[a], I)
            /\ result # "" => \A a, b \in DOMAIN P : a < b => Pos(I, P[a]) < Pos(I, P[b])
            /\ result = "" => \A i \in DOMAIN I : I[i] = ""
            /\ pass > 1 => result = history[pass - 1].result

\* a second application on a result from which a repeated phrase was removed
C16_Witness ==
    /\ pc = "done"
    /\ fn = "dedupe_and_clean_prompt"
    /\ pass = 2
    /\ Len(Phrases(history[1].result)) >= 2
    /\ Len(Phrases(history[1].result)) < Len(history[1].tokens)

\* the canonicalizer has been applied to the phrases of the text
Canonicalized == fn = "_alias_or_canonical" /\ pc = "done"

\* some allowlist member scores at least 90 against the key
FuzzyReach(key) ==
    \E k \in DOMAIN cfg.allowlist : ScoreAtLeast(QRatio(key, cfg.allowlist[k]), FuzzyThreshold)

\* C17: the canonicalizer's rules apply in strict order: an allowlist member
\* is returned as it is, otherwise an exact alias returns its canonical value,
\* otherwise the best allowlist candidate is returned if it scores at least
\* 90, otherwise the normalized phrase is returned; no phrase is dropped.
C17_Precedence ==
    Canonicalized =>
        /\ Len(mapped) = Len(tokens)
        /\ \A i \in DOMAIN tokens :
              LET key == NormKey(tokens[i])
              IN  IF InSeq(key, cfg.allowlist) THEN mapped[i] = key
                  ELSE IF AliasHits(key) # {}
                       THEN mapped[i] = cfg.alias_map[SetMin(AliasHits(key))].canon
                  ELSE IF FuzzyReach(key)
                       THEN /\ InSeq(mapped[i], cfg.allowlist)
                            /\ ScoreAtLeast(QRatio(key, mapped[i]), FuzzyThreshold)
                            /\ \A k \in DOMAIN cfg.allowlist :
                                  ~ScoreGreater(QRatio(key, cfg.allowlist[k]),
                                                QRatio(key, mapped[i]))
                  ELSE mapped[i] = key

\* a prompt with an allowlist member that is also an alias and with an alias
\* that a fuzzy candidate would also match
C17_Witness ==
    /\ Canonicalized
    /\ \E i \in DOMAIN tokens :
          /\ InSeq(NormKey(tokens[i]), cfg.allowlist)
          /\ AliasHits(NormKey(tokens[i])) # {}
          /\ mapped[i] = NormKey(tokens[i])
    /\ \E i \in DOMAIN tokens :
          /\ ~InSeq(NormKey(tokens[i]), cfg.allowlist)
          /\ AliasHits(NormKey(tokens[i])) # {}
          /\ FuzzyReach(NormKey(tokens[i]))

\* min_keep as the claim states it
CeilFloor(n) == Max(10, CeilDiv(35 * n, 100))

\* C18: the retention floor both functions use is max(10, ceil(0.35*N)), 11
\* for N = 29 or 30, and consolidate_algorithmic retains that many phrases
\* where the input has that many distinct ones.
C18_FloorArithmetic ==
    /\ (Returned \/ SoftReturned) => MinKeep(Len(tokens)) = CeilFloor(Len(tokens))
    /\ Returned => EntryCount(result) >= Min(CeilFloor(Len(tokens)), Cardinality(KeySet(tokens)))

\* the lowercased, underscore-to-space original tokens
OriginalKeys == [i \in DOMAIN tokens |-> NormKey(tokens[i])]

\* C19: a reduced sequence of at least min_keep phrases is returned as it is;
\* a shorter one is followed by original tokens, lowercased and with
\* underscores as spaces, in original order, each only if not yet present,
\* until the length reaches min_keep or the original tokens are exhausted.
C19_FloorEnforcer ==
    Returned =>
        LET min_keep == MinKeep(Len(tokens))
            n == Len(covered)
        IN  /\ result = Join(out, ", ")
            /\ n >= min_keep => out = covered
            /\ n < min_keep =>
                  /\ Len(out) >= n
                  /\ SubSeq(out, 1, n) = covered
                  /\ Len(out) <= min_keep
                  /\ Len(out) < min_keep =>
                        \A i \in DOMAIN tokens : InSeq(OriginalKeys[i], out)
                  /\ \A k \in (n + 1)..Len(out) :
                        /\ InSeq(out[k], OriginalKeys)
                        /\ ~InSeq(out[k], SubSeq(out, 1, k - 1))
                        /\ \A i \in 1..(Pos(OriginalKeys, out[k]) - 1) :
                              InSeq(OriginalKeys[i], SubSeq(out, 1, k - 1))

\* the top-up appended a phrase and stopped at min_keep with an original
\* token still absent
C19_Witness ==
    /\ Returned
    /\ Len(covered) < Len(out)
    /\ Len(out) = MinKeep(Len(tokens))
    /\ \E i \in DOMAIN tokens : ~InSeq(OriginalKeys[i], out)

\* C20: no phrase of the returned string is the bare word "hair".
C20_FillerDrop == Returned => ~InSeq("hair", Phrases(result))

\* the index in seq of the first phrase equal to x, 0 when there is none
FirstAt(seq, x) ==
    IF InSeq(x, seq) THEN SetMin({i \in DOMAIN seq : seq[i] = x}) ELSE 0

\* C21: _dedupe_near keeps a phrase exactly when it scores below the
\* threshold, 94, against every phrase kept before it; so the first phrase is
\* kept, the kept phrases are in input order and no two of them score 94 or
\* more against each other.
C21_NearDuplicateFilter ==
    (pc = "done" /\ fn = "_dedupe_near") =>
        LET at == [k \in DOMAIN reduced |-> FirstAt(tokens, reduced[k])]
        IN  /\ \A k \in DOMAIN reduced : at[k] > 0
            /\ \A k \in DOMAIN reduced : k > 1 => at[k - 1] < at[k]
            /\ \A i \in DOMAIN tokens :
                  (\E k \in DOMAIN reduced : at[k] = i)
                  <=> \A k \in DOMAIN reduced :
                         at[k] < i => ~ScoreAtLeast(QRatio(tokens[i], reduced[k]), 94)
            /\ tokens # <<>> => reduced # <<>> /\ reduced[1] = tokens[1]
            /\ \A a, b \in DOMAIN reduced :
                  a # b => ~ScoreAtLeast(QRatio(reduced[a], reduced[b]), 94)

\* a near-duplicate was dropped and a phrase scoring between 92 and 94 was kept
C21_Witness ==
    /\ pc = "done"
    /\ fn = "_dedupe_near"
    /\ Len(reduced) < Len(tokens)
    /\ \E a, b \in DOMAIN reduced :
          /\ a # b
          /\ ScoreAtLeast(QRatio(reduced[a], reduced[b]), 92)

\* C22: with more than one person-count tag the survivor is the first tag of
\* greatest length and is the last phrase, after the other phrases in their
\* order; with at most one tag the sequence is unchanged.
C22_PersonCountPlacement ==
    (pc = "done" /\ fn = "person_count_collapse") =>
        LET tags   == {i \in DOMAIN tokens : tokens[i] \in PcPool}
            others == SelectSeq(tokens, LAMBDA t : t \notin PcPool)
            longest == {i \in tags : \A j \in tags : Len(tokens[j]) <= Len(tokens[i])}
        IN  IF Cardinality(tags) > 1
            THEN /\ Len(mapped) = Len(others) + 1
                 /\ SubSeq(mapped, 1, Len(others)) = others
                 /\ mapped[Len(mapped)] = tokens[SetMin(longest)]
            ELSE mapped = tokens

\* two tags of the greatest length, the survivor being the earlier one
C22_Witness ==
    /\ pc = "done"
    /\ fn = "person_count_collapse"
    /\ \E i, j \in DOMAIN tokens :
          /\ i < j
          /\ tokens[i] \in PcPool /\ tokens[j] \in PcPool
          /\ tokens[i] # tokens[j]
          /\ Len(tokens[i]) = Len(tokens[j])
          /\ \A k \in DOMAIN tokens : tokens[k] \in PcPool => Len(tokens[k]) <= Len(tokens[i])
          /\ mapped[Len(mapped)] = tokens[i]
    /\ Len(mapped) > 2

RECURSIVE GroupWords(_, _, _)
\* the descriptor words of the phrases of seq in the group of noun, from
\* index i on, in order and with repetitions
GroupWords(seq, noun, i) ==
    IF i > Len(seq) THEN <<>>
    ELSE (IF InGroup(seq, i, noun) THEN SplitWords(NounMatch(seq[i]).desc) ELSE <<>>)
         \o GroupWords(seq, noun, i + 1)

\* the indices whose phrase is emitted: no noun, or the first of its group
Emitting(seq) ==
    {i \in DOMAIN seq :
        LET m == NounMatch(seq[i])
        IN  ~m.found \/ \A j \in 1..(i - 1) : ~InGroup(seq, j, GroupNoun(m, seq))}

\* the k-th smallest member of a set of numbers
Nth(set, k) == CHOOSE i \in set : Cardinality({j \in set : j < i}) = k - 1

\* C23: the merged phrase of a group stands where the first phrase of the
\* group stood, the other phrases of the group are gone, the merged phrase
\* holds every descriptor word of the group once, first seen first, and the
\* phrases that match no noun are unchanged and in their order.
C23_MergePlacement ==
    (pc = "done" /\ fn = "_merge_descriptor_groups") =>
        LET emit == Emitting(mapped)
        IN  /\ Len(norm_tokens) = Cardinality(emit)
            /\ \A k \in DOMAIN norm_tokens :
                  LET i == Nth(emit, k)
                      m == NounMatch(mapped[i])
                  IN  IF ~m.found THEN norm_tokens[k] = mapped[i]
                      ELSE LET noun  == GroupNoun(m, mapped)
                               all   == GroupWords(mapped, noun, 1)
                               words == SplitWords(norm_tokens[k])
                               n     == Len(words) - Len(SplitWords(noun))
                               descs == SubSeq(words, 1, n)
                           IN  /\ n >= 1
                               /\ norm_tokens[k] = Join(descs, " ") \o " " \o noun
                               /\ \A a, b \in DOMAIN descs : a # b => descs[a] # descs[b]
                               /\ {descs[a] : a \in DOMAIN descs} = {all[a] : a \in DOMAIN all}
                               /\ \A a, b \in DOMAIN descs :
                                     a < b => FirstAt(all, descs[a]) < FirstAt(all, descs[b])

\* a group of two phrases that share a descriptor word, a phrase of no noun
\* between them
C23_Witness ==
    /\ pc = "done"
    /\ fn = "_merge_descriptor_groups"
    /\ \E i, j, k \in DOMAIN mapped :
          /\ i < k /\ k < j
          /\ ~NounMatch(mapped[k]).found
          /\ NounMatch(mapped[i]).found
          /\ InGroup(mapped, j, GroupNoun(NounMatch(mapped[i]), mapped))
          /\ \E w \in {"pale", "big", "red"} :
                /\ InSeq(w, SplitWords(NounMatch(mapped[i]).desc))
                /\ InSeq(w, SplitWords(NounMatch(mapped[j]).desc))
    /\ Len(norm_tokens) < Len(mapped)

\* whether phrase x ends with the characters of tail
EndsWith(x, tail) ==
    Len(x) >= Len(tail) /\ SubSeq(x, Len(x) - Len(tail) + 1, Len(x)) = tail

\* the phrases "<descriptors> lipstick" of the sequence given to the merge
LipstickPhrases == {i \in DOMAIN mapped : LET m == NounMatch(mapped[i])
                                          IN  m.found /\ m.noun = "lipstick"}

\* a phrase that is lip gloss or ends with " lip gloss" is in the sequence
GlossInSequence == \E i \in DOMAIN mapped : mapped[i] = "lip gloss" \/ EndsWith(mapped[i], " lip gloss")

\* C24: the descriptors of a phrase "<descriptors> lipstick" go to the lip
\* gloss group exactly when a phrase that is lip gloss or ends with
\* " lip gloss" is in the sequence; otherwise they stay in the lipstick group.
C24_LipstickException ==
    (pc = "done" /\ fn = "_merge_descriptor_groups") =>
        \A i \in LipstickPhrases :
            LET noun == IF GlossInSequence THEN "lip gloss" ELSE "lipstick"
                other == IF GlossInSequence THEN "lipstick" ELSE "lip gloss"
                descs == SplitWords(NounMatch(mapped[i]).desc)
            IN  /\ \E k \in DOMAIN norm_tokens :
                      /\ EndsWith(norm_tokens[k], " " \o noun)
                      /\ \A a \in DOMAIN descs : InSeq(descs[a], SplitWords(norm_tokens[k]))
                /\ \A k \in DOMAIN norm_tokens : ~EndsWith(norm_tokens[k], " " \o other)

\* lipstick phrases merged under lip gloss
C24_Witness ==
    /\ pc = "done"
    /\ fn = "_merge_descriptor_groups"
    /\ Cardinality(LipstickPhrases) > 1
    /\ GlossInSequence
    /\ \E k \in DOMAIN norm_tokens : EndsWith(norm_tokens[k], " lip gloss")

\* lipstick phrases merged under lipstick, no lip gloss phrase being present
C24_WitnessNoGloss ==
    /\ pc = "done"
    /\ fn = "_merge_descriptor_groups"
    /\ Cardinality(LipstickPhrases) > 1
    /\ ~GlossInSequence
    /\ \E k \in DOMAIN norm_tokens : EndsWith(norm_tokens[k], " lipstick")

\* the phrases of the input that are not drift tokens
NonDrift ==
    SelectSeq(tokens, LAMBDA t : \A k \in DOMAIN cfg.drift : Lower(t) # Lower(cfg.drift[k]))

\* C25: when _soft_compact_fallback returns fewer tokens than it was given,
\* it still returns at least max(10, ceil(0.35*N)) of them, and every token
\* that is not a drift token is returned.
C25_SoftCompactFloor ==
    SoftReturned =>
        /\ EntryCount(result) < Len(tokens) => EntryCount(result) >= CeilFloor(Len(tokens))
        /\ \A i \in DOMAIN NonDrift : InSeq(NonDrift[i], Phrases(result))

\* max(min_keep, ceil(0.85 * n))
CeilTarget(n) == Max(CeilFloor(n), CeilDiv(85 * n, 100))

\* C26: with target = max(min_keep, ceil(0.85*N)), _soft_compact_fallback
\* keeps the first target tokens whatever they are and, of the tokens after
\* them, the ones that are not drift tokens.
C26_SoftCompactTargetGate ==
    SoftReturned =>
        LET n == Len(tokens)
            target == CeilTarget(n)
            late == {i \in (target + 1)..n :
                        \A k \in DOMAIN cfg.drift : Lower(tokens[i]) # Lower(cfg.drift[k])}
        IN  EntryCount(result) = Min(n, target) + Cardinality(late)

\* C29: called with an argument that is not a string, _split_and_clean
\* raises nothing and yields the empty phrase sequence.
C29_NonStringInput ==
    (pc = "done" /\ fn = "_split_and_clean" /\ call.text # "str") =>
        raised = "none" /\ tokens = <<>>

\* C30: the string consolidate_algorithmic returns has at most as many
\* phrases as its input.
C30_NeverGrows == Returned => Len(Phrases(result)) <= Len(tokens)

\* what a configuration file holds where it is installed
Content(file) ==
    IF file = AllowlistFile THEN InstalledVocabulary.allowlist
    ELSE IF file = WeightableFile THEN InstalledWeightable
    ELSE IF file = MediaFile THEN InstalledMedia
    ELSE IF file = DriftFile THEN InstalledVocabulary.drift
    ELSE IF file = AliasMapFile THEN InstalledVocabulary.alias_map
    ELSE InstalledModifiers

\* the directory the claim names: data when its sentinel exists, else the
\* legacy directory when the sentinel exists there, else data
ClaimedDir ==
    IF fs[NewDir][AllowlistFile] # "missing" THEN NewDir
    ELSE IF fs[LegacyDir][AllowlistFile] # "missing" THEN LegacyDir
    ELSE NewDir

\* C27: the data directory is data when data/allowlists/allowlist.txt exists,
\* else essence-extractor/data when the sentinel exists there, else data, and
\* each of the six files is read from that directory: a line file gives its
\* content or nothing, and the constructor raises exactly when a JSON file of
\* that directory cannot be loaded.
C27_DataDirResolution ==
    npc \in {"constructed", "raised"} =>
        IF \E f \in JsonFiles : fs[ClaimedDir][f] # "ok"
        THEN npc = "raised" /\ raised # "none"
        ELSE /\ npc = "constructed"
             /\ loaded.data_dir = ClaimedDir
             /\ \A f \in ConfigFiles :
                   Collection(loaded, f) = IF fs[ClaimedDir][f] = "ok" THEN Content(f) ELSE <<>>

\* both sentinels exist, data is used, and a line file missing from data is
\* not taken from the legacy directory
C27_Witness ==
    /\ npc = "constructed"
    /\ fs[NewDir][AllowlistFile] # "missing"
    /\ fs[LegacyDir][AllowlistFile] # "missing"
    /\ loaded.data_dir = NewDir
    /\ fs[NewDir][DriftFile] = "missing"
    /\ fs[LegacyDir][DriftFile] = "ok"
    /\ loaded.drift = <<>>

\* the sentinel exists only in the legacy directory, which is used
C27_WitnessLegacy ==
    /\ npc = "constructed"
    /\ fs[NewDir][AllowlistFile] = "missing"
    /\ fs[NewDir][AliasMapFile] = "missing"
    /\ loaded.data_dir = LegacyDir
    /\ loaded.alias_map # <<>>

\* no sentinel exists, data is used and the constructor raises for want of
\* alias_map.json
C27_WitnessNone ==
    /\ npc = "raised"
    /\ fs[NewDir][AllowlistFile] = "missing"
    /\ fs[LegacyDir][AllowlistFile] = "missing"
    /\ fs[NewDir][AliasMapFile] = "missing"

====
